---- MODULE Spec2Model ----
(***************************************************************************)
(* Model of src/src/changelistener.rs: VirtualDesktopChangeListener, the   *)
(* COM sink that is registered with IVirtualDesktopNotificationService,    *)
(* forwards the service's notifications to four replaceable callbacks and  *)
(* unregisters itself in Drop::drop.                                       *)
(*                                                                         *)
(* The model follows one listener: it is built and registered by           *)
(* register(), handed to the owner on success, and torn down by drop().    *)
(* The service, the desktops and views it passes in, and the owner's       *)
(* callbacks are the environment; their results are drawn from small sets. *)
(***************************************************************************)
EXTENDS Integers, Sequences, FiniteSets, TLC

\* ---------------------------------------------------------------- bounds
MaxCookie == 1        \* cookies the service may hand back: 0..MaxCookie
NumCallbacks == 2     \* distinct closures the owner may install: 1..NumCallbacks
MaxDesktopID == 2     \* desktop ids / window handles: 1..MaxDesktopID
MaxDepth == 1         \* notifications in flight at once (running callbacks)
MaxDrops == 2         \* runs of Drop::drop on the listener

\* ------------------------------------------------------------ value sets
\* Option::None in a handler slot; closures are 1..NumCallbacks
None == 0
Callbacks == 1..NumCallbacks
\* DesktopID / HWND value left by Default::default() and `0 as _`
DefaultID == 0
\* the four RefCell<Option<Box<dyn Fn..>>> fields of the struct
Slots == {"_on_desktop_change", "_on_desktop_created",
          "_on_desktop_destroyed", "_on_window_change"}
\* the six methods of IVirtualDesktopNotification
Methods == {"virtual_desktop_created", "virtual_desktop_destroy_begin",
            "virtual_desktop_destroy_failed", "virtual_desktop_destroyed",
            "view_virtual_desktop_changed", "current_virtual_desktop_changed"}
\* an IVirtualDesktop passed in by the service: its id, and whether get_id
\* succeeds (on failure the out-parameter is left as it was); one desktop
\* whose get_id fails stands for all of them
Desktops == [id : 1..MaxDesktopID, ok : {TRUE}] \cup [id : {1}, ok : {FALSE}]
\* an IApplicationView passed in by the service
Views == [hwnd : 1..MaxDesktopID, ok : {TRUE}] \cup [hwnd : {1}, ok : {FALSE}]
\* status codes the environment returns: S_OK and two failure codes
HRESULTS == {-2, -1, 0}
HRESULT_ok == 0
failed(hr) == hr < 0

\* ----------------------------------------------------------------- state
VARIABLES
  phase,        \* "none": no listener in the owner's hands; "live": register
                \* returned Ok(listener); "dropped": Drop::drop has run
  service,      \* listener.service: TRUE iff the Cell holds Some(service)
  cookie,       \* listener.cookie
  slots,        \* the four handler slots: None or a closure
  stack,        \* notifications in flight: frames of running callbacks, each
                \* holding the RefCell borrow of its slot
  panicked,     \* a RefCell borrow check failed (BorrowMutError panic)
  \* what the environment observed (history)
  lastQuery,    \* query_interface outcome of the last register()
  lastRes2,     \* what service.register returned in the last register()
                \* (HRESULT_ok while it has not been called)
  lastRegister, \* what the last register() returned to the owner
  regCalls,     \* calls of service.register made by the last register()
  regToken,     \* cookie written by the last successful service.register
  unregCalls,   \* cookies passed to service.unregister, in order
  unregRets,    \* what those calls of service.unregister returned
  drops,        \* runs of Drop::drop on a listener the owner held
  calls,        \* callback invocations made by the last step
  rets,         \* returns of notification methods made by the last step
  installed,    \* per slot, the closure passed to the last completed on_* call
  installs,     \* how many on_* calls completed (counted up to 2)
  lastOp,       \* name of the operation that made the last step
  lastIn        \* the objects the service passed to that operation

vars == <<phase, service, cookie, slots, stack, panicked, lastQuery, lastRes2,
          lastRegister, regCalls, regToken, unregCalls, unregRets, drops,
          calls, rets,
          installed, installs, lastOp, lastIn>>

handleVars == <<phase, service, cookie>>
serviceVars == <<lastQuery, lastRes2, lastRegister, regCalls, regToken,
                 unregCalls, unregRets, drops>>


NoQuery == [res |-> HRESULT_ok, null |-> FALSE]

\* VirtualDesktopChangeListener::new(): empty service, cookie 0, empty slots
new ==
  /\ service = FALSE
  /\ cookie = 0
  /\ slots = [s \in Slots |-> None]

Init ==
  /\ new
  /\ phase = "none"
  /\ stack = <<>>
  /\ panicked = FALSE
  /\ lastQuery = NoQuery
  /\ lastRes2 = HRESULT_ok
  /\ lastRegister = <<"none", HRESULT_ok>>
  /\ regCalls = 0
  /\ regToken = 0
  /\ unregCalls = <<>>
  /\ unregRets = <<>>
  /\ drops = 0
  /\ calls = <<>>
  /\ rets = <<>>
  /\ installed = [s \in Slots |-> None]
  /\ installs = 0
  /\ lastOp = "new"
  /\ lastIn = <<>>

\* RefCell borrow state: a slot is shared-borrowed while a frame of it runs
Borrowed(slot) == \E i \in 1..Len(stack) : stack[i].slot = slot

\* ------------------------------------------------ handler installation
\* variant: an occupied slot keeps its closure (first write wins)
replace_keep_old(old, callback) == IF old # None THEN old ELSE callback

\* RefCell::replace(Some(callback)): the slot's new content
replace(old, callback) == callback

\* on_*(callback): RefCell::replace takes a mutable borrow, which panics
\* (BorrowMutError) while a notification of this slot holds its borrow
Install(op, slot, callback) ==
  /\ phase = "live" /\ ~panicked
  /\ lastOp' = op /\ lastIn' = <<>>
  /\ IF Borrowed(slot)
       THEN /\ panicked' = TRUE
            /\ UNCHANGED <<slots, installed, installs>>
       ELSE /\ slots' = [slots EXCEPT ![slot] = replace(slots[slot], callback)]
            /\ installed' = [installed EXCEPT ![slot] = callback]
            /\ installs' = IF installs < 2 THEN installs + 1 ELSE installs
            /\ UNCHANGED panicked
  /\ calls' = <<>> /\ rets' = <<>>
  /\ UNCHANGED <<handleVars, serviceVars, stack>>

on_desktop_change(callback) ==
  Install("on_desktop_change", "_on_desktop_change", callback)

\* variant: the closure is stored in the desktop-destroyed slot
on_desktop_created_wrong_slot(callback) ==
  Install("on_desktop_created", "_on_desktop_destroyed", callback)

on_desktop_created(callback) ==
  Install("on_desktop_created", "_on_desktop_created", callback)

on_desktop_destroyed(callback) ==
  Install("on_desktop_destroyed", "_on_desktop_destroyed", callback)

on_window_change(callback) ==
  Install("on_window_change", "_on_window_change", callback)

\* ------------------------------------------------------- notifications
\* IVirtualDesktop::get_id(&mut id): the value of id after the call
get_id(desktop, id) == IF desktop.ok THEN desktop.id ELSE id

\* IApplicationView::get_thumbnail_window(&mut hwnd)
get_thumbnail_window(view, hwnd) == IF view.ok THEN view.hwnd ELSE hwnd

\* variant: destroy_failed reports the failure to the service
result_destroy_failed(method) ==
  IF method = "virtual_desktop_destroy_failed" THEN -1 ELSE HRESULT_ok

\* the HRESULT::ok() that ends each of the six methods
result(method) == HRESULT_ok

\* a method that returns without looking at its arguments or at a slot
Ignore(method) ==
  /\ phase = "live" /\ ~panicked
  /\ calls' = <<>>
  /\ rets' = <<[method |-> method, status |-> result(method)]>>
  /\ lastOp' = method /\ lastIn' = <<>>
  /\ UNCHANGED <<handleVars, serviceVars, slots, installed, installs,
                 panicked, stack>>

\* `if let Some(cb) = self.<slot>.borrow().as_deref() { ...; cb(args) }`:
\* with a closure in the slot it is called with args and runs, the borrow
\* held, until Return; with an empty slot the method returns at once
Dispatch(method, in, slot, args) ==
  /\ phase = "live" /\ ~panicked
  /\ lastOp' = method /\ lastIn' = in
  /\ IF slots[slot] # None
       THEN /\ Len(stack) < MaxDepth
            /\ calls' = <<[slot |-> slot, cb |-> slots[slot], args |-> args]>>
            /\ rets' = <<>>
            /\ stack' = Append(stack, [method |-> method, slot |-> slot])
       ELSE /\ calls' = <<>>
            /\ rets' = <<[method |-> method, status |-> result(method)]>>
            /\ UNCHANGED stack
  /\ UNCHANGED <<handleVars, serviceVars, slots, installed, installs, panicked>>

\* variant: nothing is forwarded when get_id fails
virtual_desktop_created_checked(desktop) ==
  IF desktop.ok
    THEN Dispatch("virtual_desktop_created", <<desktop>>, "_on_desktop_created",
                  <<get_id(desktop, DefaultID)>>)
    ELSE /\ phase = "live" /\ ~panicked
         /\ calls' = <<>>
         /\ rets' = <<[method |-> "virtual_desktop_created",
                       status |-> result("virtual_desktop_created")]>>
         /\ lastOp' = "virtual_desktop_created" /\ lastIn' = <<desktop>>
         /\ UNCHANGED <<handleVars, serviceVars, slots, installed, installs,
                        panicked, stack>>

virtual_desktop_created(desktop) ==
  Dispatch("virtual_desktop_created", <<desktop>>, "_on_desktop_created",
           <<get_id(desktop, DefaultID)>>)

\* variant: destroy_begin is forwarded like destroyed
virtual_desktop_destroy_begin_forwarded(destroyed_desktop, fallback_desktop) ==
  Dispatch("virtual_desktop_destroy_begin",
           <<destroyed_desktop, fallback_desktop>>, "_on_desktop_destroyed",
           <<get_id(destroyed_desktop, DefaultID)>>)

virtual_desktop_destroy_begin(destroyed_desktop, fallback_desktop) ==
  Ignore("virtual_desktop_destroy_begin")

virtual_desktop_destroy_failed(destroyed_desktop, fallback_desktop) ==
  Ignore("virtual_desktop_destroy_failed")

\* variant: the fallback desktop's id is read
virtual_desktop_destroyed_fallback(destroyed_desktop, fallback_desktop) ==
  Dispatch("virtual_desktop_destroyed",
           <<destroyed_desktop, fallback_desktop>>, "_on_desktop_destroyed",
           <<get_id(fallback_desktop, DefaultID)>>)

virtual_desktop_destroyed(destroyed_desktop, fallback_desktop) ==
  Dispatch("virtual_desktop_destroyed",
           <<destroyed_desktop, fallback_desktop>>, "_on_desktop_destroyed",
           <<get_id(destroyed_desktop, DefaultID)>>)

\* variant: the desktop-change slot is read instead of the window slot
view_virtual_desktop_changed_wrong_slot(view) ==
  Dispatch("view_virtual_desktop_changed", <<view>>, "_on_desktop_change",
           <<get_thumbnail_window(view, DefaultID)>>)

view_virtual_desktop_changed(view) ==
  Dispatch("view_virtual_desktop_changed", <<view>>, "_on_window_change",
           <<get_thumbnail_window(view, DefaultID)>>)

current_virtual_desktop_changed(old_desktop, new_desktop) ==
  Dispatch("current_virtual_desktop_changed",
           <<old_desktop, new_desktop>>, "_on_desktop_change",
           <<get_id(old_desktop, DefaultID), get_id(new_desktop, DefaultID)>>)

\* the running callback returns: the borrow of its slot ends and the
\* method returns HRESULT::ok() to the service
Return ==
  /\ ~panicked
  /\ stack # <<>>
  /\ LET top == stack[Len(stack)] IN
       /\ stack' = SubSeq(stack, 1, Len(stack) - 1)
       /\ rets' = <<[method |-> top.method, status |-> result(top.method)]>>
  /\ calls' = <<>>
  /\ lastOp' = "Return" /\ lastIn' = <<>>
  /\ UNCHANGED <<handleVars, serviceVars, slots, installed, installs, panicked>>

\* ------------------------------------------------- register and drop
\* variant: unregister is called whether or not a service is stored
unregister_calls_no_service_test(svc, ck) == <<ck>>

\* variant: the cookie is not tested
unregister_calls_no_cookie_test(svc, ck) == IF svc THEN <<ck>> ELSE <<>>

\* variant: the cookie test is inverted
unregister_calls_inverted(svc, ck) == IF svc /\ ck = 0 THEN <<ck>> ELSE <<>>

\* Drop::drop's calls of service.unregister for a listener whose fields are
\* (svc, ck): the cookie is passed iff a service was stored and ck != 0
unregister_calls(svc, ck) == IF svc /\ ck # 0 THEN <<ck>> ELSE <<>>

\* variant: the service is read with get-like access and stays stored
drop_keep_service(ures) ==
  /\ phase \in {"live", "dropped"} /\ ~panicked
  /\ stack = <<>>
  /\ drops < MaxDrops
  /\ drops' = drops + 1
  /\ unregCalls' = unregCalls \o unregister_calls(service, cookie)
  /\ unregRets' = unregRets \o [i \in 1..Len(unregister_calls(service, cookie)) |-> ures]
  /\ service' = service
  /\ phase' = "dropped"
  /\ lastOp' = "drop" /\ lastIn' = <<>>
  /\ calls' = <<>> /\ rets' = <<>>
  /\ UNCHANGED <<cookie, slots, installed, installs, panicked, stack,
                 lastQuery, lastRes2, lastRegister, regCalls, regToken>>

\* variant: a failed unregister puts the service back for another try
drop_retry_on_failure(ures) ==
  /\ phase \in {"live", "dropped"} /\ ~panicked
  /\ stack = <<>>
  /\ drops < MaxDrops
  /\ drops' = drops + 1
  /\ unregCalls' = unregCalls \o unregister_calls(service, cookie)
  /\ unregRets' = unregRets \o [i \in 1..Len(unregister_calls(service, cookie)) |-> ures]
  /\ service' = (service /\ cookie # 0 /\ failed(ures))
  /\ phase' = "dropped"
  /\ lastOp' = "drop" /\ lastIn' = <<>>
  /\ calls' = <<>> /\ rets' = <<>>
  /\ UNCHANGED <<cookie, slots, installed, installs, panicked, stack,
                 lastQuery, lastRes2, lastRegister, regCalls, regToken>>

\* Drop::drop: service.take(), then unregister(cookie) if cookie != 0;
\* the result ures of unregister is not looked at, the cookie is left as
\* it is
drop(ures) ==
  /\ phase \in {"live", "dropped"} /\ ~panicked
  /\ stack = <<>>
  /\ drops < MaxDrops
  /\ drops' = drops + 1
  /\ unregCalls' = unregCalls \o unregister_calls(service, cookie)
  /\ unregRets' = unregRets \o [i \in 1..Len(unregister_calls(service, cookie)) |-> ures]
  /\ service' = FALSE
  /\ phase' = "dropped"
  /\ lastOp' = "drop" /\ lastIn' = <<>>
  /\ calls' = <<>> /\ rets' = <<>>
  /\ UNCHANGED <<cookie, slots, installed, installs, panicked, stack,
                 lastQuery, lastRes2, lastRegister, regCalls, regToken>>

\* variant: the null test on the interface pointer is missing
query_ok_no_null_test(res, ipv_null) == ~failed(res)

\* the `if !res.failed() && !ipv.is_null()` of register
query_ok(res, ipv_null) == ~failed(res) /\ ~ipv_null

\* variant: the register call's own status is returned
register_error_res2(res, res2) == res2

\* the status in the `Err(res)` that register returns when service.register
\* failed: the one query_interface gave
register_error(res, res2) == res

\* register(service): new(), query_interface -> (res, ipv), then
\* service.register(ptr, &mut cookie) -> (res2, ck).  On Err the listener
\* goes out of scope, which runs Drop::drop on its still empty fields.
register(res, ipv_null, res2, ck) ==
  /\ phase = "none" /\ ~panicked
  /\ new
  /\ lastQuery' = [res |-> res, null |-> ipv_null]
  /\ lastOp' = "register" /\ lastIn' = <<>>
  /\ IF query_ok(res, ipv_null)
       THEN /\ regCalls' = 1
            /\ lastRes2' = res2
            /\ IF failed(res2)
                 THEN /\ lastRegister' = <<"Err", register_error(res, res2)>>
                      /\ unregCalls' = unregCalls \o unregister_calls(service, cookie)
                      /\ UNCHANGED <<handleVars, regToken>>
                 ELSE /\ service' = TRUE
                      /\ cookie' = ck
                      /\ regToken' = ck
                      /\ phase' = "live"
                      /\ lastRegister' = <<"Ok", HRESULT_ok>>
                      /\ UNCHANGED unregCalls
       ELSE /\ regCalls' = 0
            /\ lastRes2' = HRESULT_ok
            /\ lastRegister' = <<"Err", res>>
            /\ unregCalls' = unregCalls \o unregister_calls(service, cookie)
            /\ UNCHANGED <<handleVars, regToken>>
  /\ calls' = <<>> /\ rets' = <<>>
  /\ UNCHANGED <<slots, installed, installs, panicked, drops, stack, unregRets>>

\* ------------------------------------------------------- specification
Next ==
  \/ \E res \in HRESULTS, ipv_null \in BOOLEAN, res2 \in HRESULTS,
        ck \in 0..MaxCookie : register(res, ipv_null, res2, ck)
  \/ \E ures \in HRESULTS : drop(ures)
  \/ \E cb \in Callbacks : on_desktop_change(cb)
  \/ \E cb \in Callbacks : on_desktop_created(cb)
  \/ \E cb \in Callbacks : on_desktop_destroyed(cb)
  \/ \E cb \in Callbacks : on_window_change(cb)
  \/ \E d \in Desktops : virtual_desktop_created(d)
  \/ \E d \in Desktops : virtual_desktop_destroy_begin(d, d)
  \/ \E d \in Desktops : virtual_desktop_destroy_failed(d, d)
  \/ \E d, f \in Desktops : virtual_desktop_destroyed(d, f)
  \/ \E v \in Views : view_virtual_desktop_changed(v)
  \/ \E o, n \in Desktops : current_virtual_desktop_changed(o, n)
  \/ Return

Spec == Init /\ [][Next]_vars

TypeOK ==
  /\ phase \in {"none", "live", "dropped"}
  /\ service \in BOOLEAN
  /\ cookie \in 0..MaxCookie
  /\ slots \in [Slots -> {None} \cup Callbacks]
  /\ Len(stack) <= MaxDepth
  /\ panicked \in BOOLEAN

\* ================================================================ claims
\* the slot each forwarding method is documented to serve
SlotOf ==
  [m \in {"virtual_desktop_created", "virtual_desktop_destroyed",
          "view_virtual_desktop_changed", "current_virtual_desktop_changed"} |->
     CASE m = "virtual_desktop_created" -> "_on_desktop_created"
       [] m = "virtual_desktop_destroyed" -> "_on_desktop_destroyed"
       [] m = "view_virtual_desktop_changed" -> "_on_window_change"
       [] m = "current_virtual_desktop_changed" -> "_on_desktop_change"]

InstallOps == {"on_desktop_change", "on_desktop_created",
               "on_desktop_destroyed", "on_window_change"}

\* C1 (as stated): once a registered listener has been dropped, the service
\* has seen exactly one unregister call, carrying the token of registration,
\* whatever token that was.
C1_ExactlyOneUnregisterAnyToken ==
  phase = "dropped" => unregCalls = <<regToken>>

\* C1 (amended): a listener registered with a nonzero token t is
\* unregistered exactly once, with t, by its drop, after any installs and
\* notifications; a listener registered with token 0 is never unregistered;
\* before the drop no unregister call is made.
C1_UnregisterOnceIffTokenNonzero ==
  /\ phase # "dropped" => unregCalls = <<>>
  /\ phase = "dropped" =>
       unregCalls = (IF regToken # 0 THEN <<regToken>> ELSE <<>>)

C1_Witness ==
  /\ phase = "dropped" /\ lastOp = "drop"
  /\ regToken # 0 /\ unregCalls = <<regToken>>
  /\ installs = 2

\* C2: however often drop runs, at most one unregister call is made in
\* total; after the first drop the service slot is empty, and no step taken
\* after it (a later drop in particular) makes an unregister call.
C2_TeardownIdempotent ==
  /\ [](Len(unregCalls) <= 1 /\ (phase = "dropped" => ~service))
  /\ [][phase = "dropped" => unregCalls' = unregCalls]_vars

C2_Witness == drops = 2 /\ Len(unregCalls) = 1 /\ ~service

\* C3: a register() whose interface query fails (failing status or null
\* pointer) makes no call of the service's register operation.
C3_NoRegisterAfterQueryFailure ==
  (lastOp = "register" /\ (lastQuery.res < 0 \/ lastQuery.null))
     => (regCalls = 0 /\ phase = "none")

C3_Witness ==
  /\ lastOp = "register"
  /\ lastQuery.res = 0 /\ lastQuery.null
  /\ regCalls = 0 /\ phase = "none"

\* C4 (as stated): in every state the stored token is nonzero iff the
\* service slot is occupied.
C4_TokenNonzeroIffService == (cookie # 0) <=> service

\* C4 (amended): before any successful register the slot is empty and the
\* token 0; after one the slot is occupied and the token is the value the
\* service returned (possibly 0); drop empties the slot and leaves the token
\* as it was.  So until the drop a nonzero token implies an occupied slot.
C4_TokenAndServiceByPhase ==
  /\ phase = "none" => (~service /\ cookie = 0)
  /\ phase = "live" => (service /\ cookie = regToken)
  /\ phase = "dropped" => (~service /\ cookie = regToken)
  /\ phase # "dropped" => (cookie # 0 => service)

C4_Witness == phase = "dropped" /\ ~service /\ cookie # 0

\* C5 (as stated): an on_* call never fails or aborts, also when it is made
\* while a notification of the same slot is being dispatched.
C5_InstallNeverAborts == lastOp \in InstallOps => ~panicked

\* C6: a notification delivered to a slot with a handler calls exactly one
\* closure, the one passed to the most recent on_* call of that slot.
C6_LastWriteWins ==
  \A m \in DOMAIN SlotOf :
    (lastOp = m /\ installed[SlotOf[m]] # None) =>
      /\ Len(calls) = 1
      /\ calls[1].slot = SlotOf[m]
      /\ calls[1].cb = installed[SlotOf[m]]

C6_Witness ==
  /\ lastOp = "virtual_desktop_created"
  /\ installs = 2
  /\ \A s \in Slots \ {"_on_desktop_created"} : slots[s] = None
  /\ Len(calls) = 1 /\ calls[1].cb = 2

\* the single call a notification step made, if it made exactly one
OneCall(slot) == Len(calls) = 1 /\ calls[1].slot = slot

\* C7: with a handler installed each forwarding method calls the closure of
\* its own slot once and no other: created with the desktop's id, destroyed
\* with the destroyed desktop's id, view-changed with the view's window,
\* current-changed with (old id, new id).
C7_Routing ==
  /\ (lastOp = "virtual_desktop_created"
        /\ installed["_on_desktop_created"] # None) =>
       /\ OneCall("_on_desktop_created")
       /\ Len(calls[1].args) = 1
       /\ lastIn[1].ok => calls[1].args[1] = lastIn[1].id
  /\ (lastOp = "virtual_desktop_destroyed"
        /\ installed["_on_desktop_destroyed"] # None) =>
       /\ OneCall("_on_desktop_destroyed")
       /\ Len(calls[1].args) = 1
       /\ lastIn[1].ok => calls[1].args[1] = lastIn[1].id
  /\ (lastOp = "view_virtual_desktop_changed"
        /\ installed["_on_window_change"] # None) =>
       /\ OneCall("_on_window_change")
       /\ Len(calls[1].args) = 1
       /\ lastIn[1].ok => calls[1].args[1] = lastIn[1].hwnd
  /\ (lastOp = "current_virtual_desktop_changed"
        /\ installed["_on_desktop_change"] # None) =>
       /\ OneCall("_on_desktop_change")
       /\ Len(calls[1].args) = 2
       /\ lastIn[1].ok => calls[1].args[1] = lastIn[1].id
       /\ lastIn[2].ok => calls[1].args[2] = lastIn[2].id

C7_Witness ==
  /\ lastOp = "current_virtual_desktop_changed"
  /\ lastIn = <<[id |-> 1, ok |-> TRUE], [id |-> 2, ok |-> TRUE]>>
  /\ Len(calls) = 1 /\ calls[1].args = <<1, 2>>
  /\ slots["_on_desktop_destroyed"] # None

\* C8: a destroy-begin or destroy-failed notification calls no closure and
\* changes nothing of the listener, whatever the slots hold.
C8_DestroyBeginFailedInert ==
  [][lastOp' \in {"virtual_desktop_destroy_begin",
                  "virtual_desktop_destroy_failed"}
       => /\ calls' = <<>>
          /\ UNCHANGED <<phase, service, cookie, slots, stack, panicked>>]_vars

C8_Witness ==
  /\ lastOp = "virtual_desktop_destroy_begin"
  /\ slots["_on_desktop_destroyed"] # None
  /\ slots["_on_desktop_created"] = None
  /\ rets # <<>>

\* C9: every status a notification method hands back to the service is the
\* success status, with or without a handler and whatever get_id or
\* get_thumbnail_window did; a delivered notification has either returned
\* or is running its closure.
C9_AlwaysReturnsSuccess ==
  /\ \A i \in 1..Len(rets) :
       rets[i].status = HRESULT_ok /\ ~(rets[i].status < 0)
  /\ lastOp \in Methods => (Len(rets) = 1 \/ (Len(calls) = 1 /\ stack # <<>>))
  /\ lastOp = "Return" => Len(rets) = 1

C9_Witness ==
  /\ lastOp = "Return"
  /\ rets = <<[method |-> "virtual_desktop_created", status |-> HRESULT_ok]>>

\* C10: a notification whose slot is empty calls no closure, leaves the
\* slots, the cookie and the service field as they were, and returns the
\* success status.
C10_EmptySlotNoEffect ==
  [][\A m \in DOMAIN SlotOf :
       (lastOp' = m /\ slots[SlotOf[m]] = None) =>
          /\ calls' = <<>>
          /\ rets' = <<[method |-> m, status |-> HRESULT_ok]>>
          /\ UNCHANGED <<slots, cookie, service, stack>>]_vars

C10_Witness ==
  /\ lastOp = "view_virtual_desktop_changed"
  /\ slots["_on_window_change"] = None
  /\ slots["_on_desktop_change"] # None
  /\ calls = <<>> /\ Len(rets) = 1

\* C11: when the interface query succeeded and service.register failed,
\* register returns Err and no listener, and the status in the Err is the
\* one query_interface returned, which differs from service.register's.
C11_RegisterFailureCarriesQueryStatus ==
  (regCalls = 1 /\ lastRes2 < 0) =>
     /\ lastRegister = <<"Err", lastQuery.res>>
     /\ lastRegister[2] # lastRes2
     /\ phase = "none" /\ ~service

C11_Witness ==
  /\ lastOp = "register" /\ regCalls = 1
  /\ lastRes2 = -2 /\ lastRegister = <<"Err", 0>>

\* C12: after a register() that returned Err, at either stage, there is no
\* listener, no stored service and no cookie, no unregister call has been
\* made, and a further register() can run and succeed.
C12_FailedRegisterLeavesNoTrace ==
  lastRegister[1] = "Err" =>
     /\ phase = "none" /\ ~service /\ cookie = 0
     /\ \A s \in Slots : slots[s] = None
     /\ unregCalls = <<>>
     /\ ENABLED (register(HRESULT_ok, FALSE, HRESULT_ok, MaxCookie)
                   /\ phase' = "live")

C12_Witness ==
  /\ lastOp = "register" /\ lastRegister[1] = "Err"
  /\ regCalls = 1 /\ lastRes2 = -1
  /\ unregCalls = <<>>

\* C13: a failing status of service.unregister changes nothing: after the
\* drop the service slot is empty as after a successful unregister, the
\* process has not aborted, and no later step calls unregister again.
C13_UnregisterFailureIgnored ==
  /\ [](\A i \in 1..Len(unregRets) :
          unregRets[i] < 0 =>
            (phase = "dropped" /\ ~service /\ ~panicked /\ Len(unregCalls) = 1))
  /\ [][lastOp' = "drop" =>
          (phase' = "dropped" /\ ~service' /\ cookie' = cookie /\ ~panicked')]_vars
  /\ [][unregRets # <<>> =>
          (unregCalls' = unregCalls /\ unregRets' = unregRets)]_vars

C13_Witness ==
  /\ drops = 2 /\ lastOp = "drop"
  /\ unregRets = <<-1>> /\ Len(unregCalls) = 1
  /\ ~service

\* C14: for a listener service.register is called at most once and
\* service.unregister at most once, an unregister call follows a successful
\* register of that listener and carries its token, and once dropped the
\* listener stays dropped: no register call, no stored service.
C14_LifecycleOrder ==
  /\ [](/\ regCalls <= 1
        /\ Len(unregCalls) <= 1
        /\ unregCalls # <<>> =>
             (lastRegister[1] = "Ok" /\ regCalls = 1 /\ unregCalls[1] = regToken
                /\ phase = "dropped"))
  /\ [][phase = "dropped" =>
          (phase' = "dropped" /\ ~service' /\ regCalls' = regCalls
             /\ lastRegister' = lastRegister /\ regToken' = regToken)]_vars

C14_Witness ==
  /\ phase = "dropped" /\ drops = MaxDrops
  /\ lastRegister[1] = "Ok" /\ regCalls = 1
  /\ unregCalls = <<regToken>>

\* C15: a listener registered with token 0 is dropped without any
\* unregister call, and its service slot is emptied.
C15_TokenZeroNoUnregister ==
  (phase = "dropped" /\ regToken = 0) => (unregCalls = <<>> /\ ~service)

C15_Witness ==
  /\ phase = "dropped" /\ lastOp = "drop" /\ drops = 1
  /\ lastRegister[1] = "Ok" /\ regToken = 0
  /\ unregCalls = <<>> /\ ~service

\* C16: with a handler installed, a notification whose get_id or
\* get_thumbnail_window fails still calls the closure once, with the default
\* value in the place of what could not be read; nothing aborts and no
\* failing status goes back to the service.
C16_ExtractionFailureGivesDefault ==
  /\ (lastOp = "virtual_desktop_created"
        /\ installed["_on_desktop_created"] # None /\ ~lastIn[1].ok) =>
       (OneCall("_on_desktop_created") /\ calls[1].args = <<DefaultID>>)
  /\ (lastOp = "virtual_desktop_destroyed"
        /\ installed["_on_desktop_destroyed"] # None /\ ~lastIn[1].ok) =>
       (OneCall("_on_desktop_destroyed") /\ calls[1].args = <<DefaultID>>)
  /\ (lastOp = "view_virtual_desktop_changed"
        /\ installed["_on_window_change"] # None /\ ~lastIn[1].ok) =>
       (OneCall("_on_window_change") /\ calls[1].args = <<DefaultID>>)
  /\ (lastOp = "current_virtual_desktop_changed"
        /\ installed["_on_desktop_change"] # None) =>
       /\ OneCall("_on_desktop_change")
       /\ ~lastIn[1].ok => calls[1].args[1] = DefaultID
       /\ ~lastIn[2].ok => calls[1].args[2] = DefaultID
  /\ lastOp \in Methods => ~panicked
  /\ \A i \in 1..Len(rets) : ~(rets[i].status < 0)

C16_Witness ==
  /\ lastOp = "current_virtual_desktop_changed"
  /\ lastIn[1] = [id |-> 2, ok |-> TRUE] /\ ~lastIn[2].ok
  /\ Len(calls) = 1 /\ calls[1].args = <<2, DefaultID>>

\* C17 (as stated): an Err returned by register always carries a failing
\* status.
C17_ErrCarriesFailingStatus ==
  lastRegister[1] = "Err" => lastRegister[2] < 0

\* the slot each on_* method is documented to set
InstallSlot ==
  [op \in InstallOps |->
     CASE op = "on_desktop_change" -> "_on_desktop_change"
       [] op = "on_desktop_created" -> "_on_desktop_created"
       [] op = "on_desktop_destroyed" -> "_on_desktop_destroyed"
       [] op = "on_window_change" -> "_on_window_change"]

\* C18: an on_* call leaves the three other slots, the cookie and the
\* service field as they were and makes no register or unregister call.
C18_InstallTouchesOneSlot ==
  [][lastOp' \in InstallOps =>
       /\ \A s \in Slots \ {InstallSlot[lastOp']} : slots'[s] = slots[s]
       /\ UNCHANGED <<phase, service, cookie, regCalls, unregCalls>>]_vars

C18_Witness ==
  /\ lastOp = "on_desktop_created"
  /\ slots["_on_desktop_created"] = 2
  /\ slots["_on_desktop_destroyed"] = 1
  /\ slots["_on_window_change"] = None
  /\ service /\ cookie # 0

====
